---- MODULE Spec2Model ----
(***************************************************************************)
(* Sentinex (sentinex.py): per-camera producer/consumer pipeline.          *)
(*                                                                         *)
(*   CameraStream._update   producer thread: opens the source, reads       *)
(*                          frames, publishes the newest one into          *)
(*                          self.frame under self.lock                     *)
(*   CameraStream.read      consumer side of the mailbox: copies the held  *)
(*                          frame under self.lock                          *)
(*   process_camera_analysis  consumer thread: read, analyze, tiered       *)
(*                          alerts with cooldowns, metrics                 *)
(*                                                                         *)
(* Scores are modelled in hundredths (0.45 is 45), times in seconds.       *)
(* A frame is a buffer on the heap holding two parts, so that a torn copy  *)
(* (parts of two captures) is a value the model can express.               *)
(***************************************************************************)
EXTENDS Integers, Sequences, FiniteSets, TLC

\* ------------------------------------------------------------------ bounds
\* Captures the source delivers per camera before it only fails.
MaxFrames == 2
\* Clock ticks the wall clock makes in a run.
MaxTicks == 4
\* Seconds per clock tick.
TickStep == 15
\* Wall-clock time when the consumers start (time.time() is far above any cooldown).
StartTime == 60

\* ------------------------------------------------------- program constants
SCORE_THRESHOLD == 25
SCORE_CRITICAL == 45
TTS_COOLDOWN == 60
SIREN_COOLDOWN == 30
\* `if retries > 10` in CameraStream._update
MaxRetries == 10
\* Longest run of consecutive failed reads followed.
MaxReadFails == 11
\* Captures per source when two cameras run.
CamsFrames == 1
\* Clock steps when two cameras alert.
AlertTicks == 2

\* Camera names the environment may configure (RTSP_URL_<NAME>).
Cams == {"GATE", "YARD"}
\* Scores the inference service may report: below every threshold, the two
\* thresholds themselves, one above, and one outside [0, 1] (1.7).
Scores == {0, SCORE_THRESHOLD, SCORE_CRITICAL, 90, 170}
\* How the inference call of analyze_llm ends: a usable reply, or one of the
\* failures its try block catches.
LlmOutcomes == {"ok", "timeout", "http_error", "bad_json", "not_object",
                "bad_score"}
\* `time.sleep(5)` after a failed open
OpenRetryWait == 5
\* iniciar_stream(backoff_start=5, backoff_max=60) of sentinex_cam1.py
BackoffStart == 5
BackoffMax == 60
\* max_consecutive_errors of sentinex_nano.py
MaxConsecutiveErrors == 5
\* max_reconnect_attempts of sentinex_nano.py
MaxReconnectAttempts == 3
\* wait_time = min(30, 10 * reconnect_attempts) in sentinex_nano.py
ReconnectWaitMax == 30
ReconnectWaitStep == 10
\* Failed opens followed inside one call of iniciar_stream.
MaxOpenFails == 6
\* Calls of iniciar_stream followed.
MaxCalls == 3

None == 0
BufIds == 1..(MaxFrames + 1)
NoTime == -1

VARIABLES
    streams,              \* main: names of the CameraStreams constructed
    TTS_ENABLED,          \* configuration flag read from the environment
    \* ---- what lies behind each camera's URL and the inference endpoint
    supply,               \* supply[c]: captures the source can deliver
    replies,              \* replies[c]: scores the service reports for c
    now,                  \* wall clock, time.time()
    \* ---- CameraStream fields
    frame,                \* self.frame: None or a reference to a buffer
    lock,                 \* self.lock: "free", "producer" or "consumer"
    stopped,              \* self.stopped
    \* ---- the frame buffers of each camera's source
    heap,                 \* heap[c][b]: the two parts of buffer b
    captured,             \* captures delivered so far by cap.read()
    \* ---- locals of CameraStream._update
    ppc,                  \* position of the producer thread
    retries,
    capOpen,              \* the cv2.VideoCapture handle is open
    pframe,               \* local `frame`: reference returned by cap.read()
    wait,                 \* seconds slept after the failed open just made
    \* ---- locals of CameraStream.read / process_camera_analysis
    cpc,                  \* position of the consumer thread
    rref,                 \* read(): the reference loaded from self.frame
    cframe,               \* local `frame`: the private copy (two parts) or None
    res,                  \* res["score"]
    text,                 \* res["text"]
    last_tts_alert_at,
    last_siren_alert_at,
    \* ---- what the current analysis cycle has done (reset when it ends)
    notif,                \* send_telegram calls, by tier of the caption
    sirenCalls,           \* play_siren_file calls
    ttsCalls,             \* play_audio_tts calls
    metricsCalls,         \* inject_omnistatus calls
    metricsArg,           \* the scores handed to inject_omnistatus
    llmFailed,            \* the inference call of the cycle failed
    callFailed,           \* a collaborator call of the cycle failed inside
    cycleNow,             \* value of time.time() the cycle read (NoTime: none)
    cycleLastSiren,       \* last_siren_alert_at when the cycle began
    cycleLastTts,         \* last_tts_alert_at when the cycle began
    \* ---- history
    lastPub,              \* argument of the most recently completed publish
    pubSeqs,              \* capture numbers of all completed publishes
    newestAtRead,         \* lastPub at the instant read() loaded self.frame
    sirenAt,              \* time of the latest play_siren_file call
    ttsAt,                \* time of the latest play_audio_tts call
    readFails,            \* consecutive failed cap.read() calls so far
    giveUpLogs,           \* "Persistent failure. Stopping producer." log lines
    \* ---- heartbeat_loop
    hbpc,                 \* position of the heartbeat thread
    \* ---- the environment, load_cameras_from_env and main
    environ,              \* environ[c]: value of RTSP_URL_<c>, "absent": no key
    CAMERAS,              \* names registered by load_cameras_from_env
    mpc,                  \* position of main
    pending,              \* names `for name, url in CAMERAS.items()` has left
    mailboxes,            \* mailboxes[c]: CameraStream objects constructed
    producers,            \* producers[c]: _update threads started
    consumers,            \* consumers[c]: process_camera_analysis threads started
    heartbeats,           \* heartbeat_loop threads started
    \* ---- sentinex_admin.py
    envfile,              \* the .env file: envfile[name].url / .prompt entries
    before,               \* envfile as it was when rename_camera was last called
    lastRename,           \* the last rename_camera call and what it returned
    \* ---- the single-camera programs
    cam1,                 \* sentinex_cam1.py: position and locals of main / iniciar_stream
    nano                  \* sentinex_nano.py: position and locals of main

vars == <<streams, TTS_ENABLED, supply, replies, now, frame, lock, stopped, heap, captured,
          ppc, retries, capOpen, pframe, wait, cpc, rref, cframe, res, text,
          last_tts_alert_at, last_siren_alert_at, notif, sirenCalls, ttsCalls,
          metricsCalls, metricsArg, llmFailed, callFailed, cycleNow, cycleLastSiren, cycleLastTts,
          lastPub, pubSeqs, newestAtRead, sirenAt, ttsAt, readFails,
          giveUpLogs, hbpc, environ, CAMERAS, mpc, pending, mailboxes,
          producers, consumers, heartbeats, envfile, before, lastRename,
          cam1, nano>>

configVars == <<streams, TTS_ENABLED, supply, replies>>
streamVars == <<frame, lock, stopped>>
sourceVars == <<heap, captured>>
producerVars == <<ppc, retries, capOpen, pframe, wait>>
readVars == <<rref, cframe, newestAtRead>>
alertVars == <<last_tts_alert_at, last_siren_alert_at>>
cycleVars == <<res, text, notif, sirenCalls, ttsCalls, metricsCalls,
               metricsArg, llmFailed, callFailed, cycleNow, cycleLastSiren,
               cycleLastTts>>
pubVars == <<lastPub, pubSeqs>>
audioVars == <<sirenAt, ttsAt>>
sideVars == <<readFails, giveUpLogs, hbpc>>
adminVars == <<envfile, before, lastRename>>
variantVars == <<cam1, nano>>
mainVars == <<environ, CAMERAS, mpc, pending, mailboxes, producers, consumers,
              heartbeats, adminVars, variantVars>>

\* ---------------------------------------------------------------- frames
\* The pixel data of the k-th capture: both parts carry k.
FrameOf(k) == <<k, k>>
NoFrame == <<None, None>>

\* cap.read() with no destination argument returns a newly allocated array:
\* a buffer no other reference points to.
AllocBufReuse(c) == IF frame[c] # None THEN frame[c] ELSE captured[c] + 1
AllocBuf(c) == captured[c] + 1

\* `self.frame = frame`: the slot is overwritten unconditionally.
StoredFrameKeepUnread(old, new) == IF old = None THEN new ELSE old
StoredFrame(old, new) == new

\* ------------------------------------------------------------------ Init
InitThreads ==
    /\ now = StartTime
    /\ frame = [c \in Cams |-> None]
    /\ lock = [c \in Cams |-> "free"]
    /\ stopped = [c \in Cams |-> FALSE]
    /\ heap = [c \in Cams |-> [b \in BufIds |-> NoFrame]]
    /\ captured = [c \in Cams |-> 0]
    /\ ppc = [c \in Cams |-> "loop"]
    /\ retries = [c \in Cams |-> 0]
    /\ capOpen = [c \in Cams |-> FALSE]
    /\ pframe = [c \in Cams |-> None]
    /\ cpc = [c \in Cams |-> "loop"]
    /\ rref = [c \in Cams |-> None]
    /\ cframe = [c \in Cams |-> NoFrame]
    /\ res = [c \in Cams |-> 0]
    /\ text = [c \in Cams |-> ""]
    /\ metricsArg = [c \in Cams |-> <<>>]
    /\ llmFailed = [c \in Cams |-> FALSE]
    /\ wait = [c \in Cams |-> 0]
    /\ last_tts_alert_at = [c \in Cams |-> 0]
    /\ last_siren_alert_at = [c \in Cams |-> 0]
    /\ notif = [c \in Cams |-> <<>>]
    /\ sirenCalls = [c \in Cams |-> 0]
    /\ ttsCalls = [c \in Cams |-> 0]
    /\ metricsCalls = [c \in Cams |-> 0]
    /\ callFailed = [c \in Cams |-> FALSE]
    /\ cycleNow = [c \in Cams |-> NoTime]
    /\ cycleLastSiren = [c \in Cams |-> 0]
    /\ cycleLastTts = [c \in Cams |-> 0]
    /\ lastPub = [c \in Cams |-> None]
    /\ pubSeqs = [c \in Cams |-> {}]
    /\ newestAtRead = [c \in Cams |-> None]
    /\ sirenAt = [c \in Cams |-> NoTime]
    /\ ttsAt = [c \in Cams |-> NoTime]
    /\ readFails = [c \in Cams |-> 0]
    /\ giveUpLogs = [c \in Cams |-> 0]

\* ------------------------------------------------- sentinex_admin.py
\* Names are sequences of characters.
Whitespace == {" "}
Alnum == {"g", "G", "y", "Y", "1"}

\* str.upper() on one character.
Upper(ch) == CASE ch = "g" -> "G" [] ch = "y" -> "Y" [] OTHER -> ch

\* str.strip(): leading and trailing whitespace removed.
RECURSIVE lstrip(_)
lstrip(raw) ==
    IF raw # <<>> /\ Head(raw) \in Whitespace THEN lstrip(Tail(raw)) ELSE raw

RECURSIVE rstrip(_)
rstrip(raw) ==
    IF raw # <<>> /\ raw[Len(raw)] \in Whitespace
    THEN rstrip(SubSeq(raw, 1, Len(raw) - 1)) ELSE raw

strip(raw) == rstrip(lstrip(raw))

\* "".join(ch if ch.isalnum() else "_" for ch in raw.strip()).upper()
normalize_name(raw) ==
    LET stripped == strip(raw)
    IN [i \in 1..Len(stripped) |->
            Upper(IF stripped[i] \in Alnum THEN stripped[i] ELSE "_")]

\* The names a request can carry, and the camera names they stand for.
RawNames ==
    {<<"g">>, <<"G">>, <<" ", "g", " ">>, <<"y">>, <<"g", "-", "1">>,
     <<"g", " ", "1">>}
Names == {normalize_name(raw) : raw \in RawNames}

\* A line of the .env file: none, a value written by hand, or a value
\* written by set_key(..., quote_mode="always").
NoEntry == <<"absent", "">>
Plain(v) == <<"plain", v>>
Quoted(v) == <<"quoted", v>>

\* dotenv_values(ENV_FILE).get(key): the value without its quotes, "absent"
\* standing for None.
dotenv_get(entry) == IF entry = NoEntry THEN "absent" ELSE entry[2]

\* `not value` for what dotenv_get returns.
Falsy(v) == v \in {"absent", ""}

\* set_env_value / unset_env on the RTSP_URL_ and SYSTEM_PROMPT_ keys.
set_url(f, name, v) == [f EXCEPT ![name].url = Quoted(v)]
set_prompt(f, name, v) == [f EXCEPT ![name].prompt = Quoted(v)]
unset_url(f, name) == [f EXCEPT ![name].url = NoEntry]
unset_prompt(f, name) == [f EXCEPT ![name].prompt = NoEntry]

\* rename_camera(old_name, new_name): the file it leaves, statement by
\* statement, and the flag it returns.
rename_found(f, old_name) == ~Falsy(dotenv_get(f[old_name].url))

\* `if not url: return False, "Camera not found"`: nothing has been written.
NotFoundUnsetsOld(f, old_name) == unset_prompt(unset_url(f, old_name), old_name)
NotFound(f, old_name) == f

rename_camera(f, old_name, new_name) ==
    LET url == dotenv_get(f[old_name].url)
        prompt == dotenv_get(f[old_name].prompt)
        f1 == set_url(f, new_name, url)
        f2 == IF ~Falsy(prompt) THEN set_prompt(f1, new_name, prompt) ELSE f1
        f3 == unset_url(f2, old_name)
        f4 == unset_prompt(f3, old_name)
    IN IF rename_found(f, old_name) THEN f4 ELSE NotFound(f, old_name)

\* What load_cameras shows of a name: listed or not, its URL and prompt.
load_cameras(f, name) ==
    IF f[name].url = NoEntry
    THEN <<FALSE, "", "">>
    ELSE <<TRUE,
           IF Falsy(dotenv_get(f[name].url)) THEN "" ELSE dotenv_get(f[name].url),
           IF Falsy(dotenv_get(f[name].prompt)) THEN ""
           ELSE dotenv_get(f[name].prompt)>>

\* Neither single-camera program has made a step.
Cam1Start ==
    [pc |-> "call", retries |-> 0, wait |-> 0, cap |-> FALSE, calls |-> 0,
     waits |-> <<>>]
NanoStart ==
    [pc |-> "connect", reconnect_attempts |-> 0, wait_time |-> 0,
     consecutive_errors |-> 0, cap |-> FALSE, failsInRow |-> 0,
     errorsInRow |-> 0]
VariantsIdle == cam1 = Cam1Start /\ nano = NanoStart

\* No admin request has been made; the file holds nothing of interest.
AdminIdle ==
    /\ envfile = [n \in Names |-> [url |-> NoEntry, prompt |-> NoEntry]]
    /\ before = envfile
    /\ lastRename = [called |-> FALSE, old |-> <<>>, new |-> <<>>, ok |-> FALSE]

\* main has started everything for the cameras in streams and sits in its
\* `while True: time.sleep(1)`.
MainStarted ==
    /\ AdminIdle
    /\ VariantsIdle
    /\ environ = [c \in Cams |-> IF c \in streams THEN "rtsp" ELSE "absent"]
    /\ CAMERAS = streams
    /\ mpc = "run"
    /\ pending = {}
    /\ mailboxes = [c \in Cams |-> IF c \in streams THEN 1 ELSE 0]
    /\ producers = [c \in Cams |-> IF c \in streams THEN 1 ELSE 0]
    /\ consumers = [c \in Cams |-> IF c \in streams THEN 1 ELSE 0]
    /\ heartbeats = 1
    /\ hbpc = "start"

\* One camera configured.
Init ==
    /\ streams = {"GATE"}
    /\ TTS_ENABLED \in BOOLEAN
    /\ supply = [c \in Cams |-> MaxFrames]
    /\ replies = [c \in Cams |-> Scores]
    /\ InitThreads
    /\ MainStarted

\* ------------------------------------------- producer: CameraStream._update
\* `while not self.stopped:`, the test of both loops of _update.
ProducerGoesOnRegardless(flag) == TRUE
ProducerGoesOn(flag) == ~flag

\* `while not self.stopped:` of the outer loop.
P_LoopCheck(c) ==
    /\ c \in streams
    /\ ppc[c] = "loop"
    /\ ppc' = [ppc EXCEPT ![c] =
                  IF ProducerGoesOn(stopped[c]) THEN "open" ELSE "done"]
    /\ wait' = [wait EXCEPT ![c] = 0]
    /\ UNCHANGED <<configVars, mainVars, sideVars, now, streamVars, sourceVars, retries, capOpen,
                   pframe, cpc, readVars, alertVars, cycleVars, pubVars,
                   audioVars>>

\* The sleep after the k-th consecutive failed open (k counted from 0):
\* `time.sleep(5)`, whatever k is.
RetryWaitDoubling(k) ==
    IF BackoffStart * (2 ^ k) < BackoffMax THEN BackoffStart * (2 ^ k)
    ELSE BackoffMax
RetryWait(k) == OpenRetryWait

\* `if retries > 10:` after the increment.
GiveUpNever(r) == FALSE
GiveUp(r) == r > MaxRetries

\* `self.stopped = True`: the flag of this CameraStream object.
SetStoppedAll(f, c) == [d \in DOMAIN f |-> TRUE]
SetStopped(f, c) == [f EXCEPT ![c] = TRUE]

\* cv2.VideoCapture(url) did not open: sleep 5 s, count the retry, and give
\* up (self.stopped = True) once retries exceeds 10.
P_OpenFail(c) ==
    /\ c \in streams
    /\ ppc[c] = "open"
    /\ wait' = [wait EXCEPT ![c] = RetryWait(retries[c])]
    /\ retries' = [retries EXCEPT ![c] = retries[c] + 1]
    /\ stopped' = IF GiveUp(retries[c] + 1)
                  THEN SetStopped(stopped, c) ELSE stopped
    /\ giveUpLogs' = [giveUpLogs EXCEPT ![c] =
                          IF GiveUp(retries[c] + 1) THEN giveUpLogs[c] + 1
                          ELSE giveUpLogs[c]]
    /\ ppc' = [ppc EXCEPT ![c] = "loop"]
    /\ UNCHANGED <<configVars, mainVars, readFails, hbpc, now, frame, lock, sourceVars,
                   capOpen, pframe, cpc, readVars, alertVars, cycleVars,
                   pubVars, audioVars>>

\* `retries = 0` after a successful open.
RetriesKept(r) == r
RetriesAfterOpen(r) == 0

\* The source opened: retries = 0 and the inner loop is entered.
P_OpenOk(c) ==
    /\ c \in streams
    /\ ppc[c] = "open"
    /\ retries' = [retries EXCEPT ![c] = RetriesAfterOpen(retries[c])]
    /\ capOpen' = [capOpen EXCEPT ![c] = TRUE]
    /\ ppc' = [ppc EXCEPT ![c] = "inner"]
    /\ UNCHANGED <<wait, configVars, mainVars, sideVars, now, streamVars, sourceVars, pframe, cpc,
                   readVars, alertVars, cycleVars, pubVars, audioVars>>

\* `while not self.stopped:` of the inner loop; leaving it reaches cap.release().
P_InnerCheck(c) ==
    /\ c \in streams
    /\ ppc[c] = "inner"
    /\ ppc' = [ppc EXCEPT ![c] =
                  IF ProducerGoesOn(stopped[c]) THEN "read" ELSE "release"]
    /\ UNCHANGED <<wait, configVars, mainVars, sideVars, now, streamVars, sourceVars, retries, capOpen,
                   pframe, cpc, readVars, alertVars, cycleVars, pubVars,
                   audioVars>>

\* Three grabs, then cap.read() delivers the next capture into a buffer.
ReadOk(c) ==
    /\ c \in streams
    /\ ppc[c] = "read"
    /\ captured[c] < supply[c]
    /\ LET b == AllocBuf(c)
           k == captured[c] + 1
       IN /\ heap' = [heap EXCEPT ![c][b] = FrameOf(k)]
          /\ captured' = [captured EXCEPT ![c] = k]
          /\ pframe' = [pframe EXCEPT ![c] = b]
    /\ ppc' = [ppc EXCEPT ![c] = "publish"]
    /\ UNCHANGED <<wait, configVars, mainVars, giveUpLogs, hbpc, now, streamVars,
                   retries, capOpen, cpc, readVars, alertVars, cycleVars,
                   pubVars, audioVars>>

P_ReadOk(c) == ReadOk(c) /\ UNCHANGED readFails

\* Where _update goes after a failed read: `cap.release(); break` leaves the
\* inner loop for the cap.release() below it and a new VideoCapture.
AfterReadFailRetry(open) == [open |-> open, pc |-> "inner"]
AfterReadFail(open) == [open |-> FALSE, pc |-> "release"]

\* cap.read() failed (not ok or frame is None): cap.release() and break.
ReadFail(c) ==
    /\ c \in streams
    /\ ppc[c] = "read"
    /\ capOpen' = [capOpen EXCEPT ![c] = AfterReadFail(capOpen[c]).open]
    /\ ppc' = [ppc EXCEPT ![c] = AfterReadFail(capOpen[c]).pc]
    /\ UNCHANGED <<wait, configVars, mainVars, giveUpLogs, hbpc, now, streamVars,
                   sourceVars, retries, pframe, cpc, readVars, alertVars,
                   cycleVars, pubVars, audioVars>>

P_ReadFail(c) == ReadFail(c) /\ UNCHANGED readFails

\* `with self.lock:` entered by the producer.
P_Acquire(c) ==
    /\ c \in streams
    /\ ppc[c] = "publish"
    /\ lock[c] = "free"
    /\ lock' = [lock EXCEPT ![c] = "producer"]
    /\ ppc' = [ppc EXCEPT ![c] = "store"]
    /\ UNCHANGED <<wait, configVars, mainVars, sideVars, now, frame, stopped, sourceVars, retries,
                   capOpen, pframe, cpc, readVars, alertVars, cycleVars,
                   pubVars, audioVars>>

\* `self.frame = frame`, the lock is released, sleep 10 ms.
P_Store(c) ==
    /\ c \in streams
    /\ ppc[c] = "store"
    /\ frame' = [frame EXCEPT ![c] = StoredFrame(frame[c], pframe[c])]
    /\ lock' = [lock EXCEPT ![c] = "free"]
    /\ lastPub' = [lastPub EXCEPT ![c] = pframe[c]]
    /\ pubSeqs' = [pubSeqs EXCEPT ![c] = pubSeqs[c] \cup {heap[c][pframe[c]][1]}]
    /\ ppc' = [ppc EXCEPT ![c] = "inner"]
    /\ UNCHANGED <<wait, configVars, mainVars, sideVars, now, stopped, sourceVars, retries, capOpen,
                   pframe, cpc, readVars, alertVars, cycleVars, audioVars>>

\* cap.release() after the inner loop, back to the outer loop.
P_Release(c) ==
    /\ c \in streams
    /\ ppc[c] = "release"
    /\ capOpen' = [capOpen EXCEPT ![c] = FALSE]
    /\ ppc' = [ppc EXCEPT ![c] = "loop"]
    /\ UNCHANGED <<wait, configVars, mainVars, sideVars, now, streamVars, sourceVars, retries, pframe,
                   cpc, readVars, alertVars, cycleVars, pubVars, audioVars>>

\* CameraStream.stop(), called by main on KeyboardInterrupt.
Stop(c) ==
    /\ c \in streams
    /\ ~stopped[c]
    /\ stopped' = SetStopped(stopped, c)
    /\ UNCHANGED <<configVars, mainVars, sideVars, now, frame, lock, sourceVars, producerVars, cpc,
                   readVars, alertVars, cycleVars, pubVars, audioVars>>

Producer(c) ==
    \/ P_LoopCheck(c)
    \/ P_OpenFail(c)
    \/ P_OpenOk(c)
    \/ P_InnerCheck(c)
    \/ P_ReadOk(c)
    \/ P_ReadFail(c)
    \/ P_Acquire(c)
    \/ P_Store(c)
    \/ P_Release(c)

\* ---------------------------------------------- mailbox: CameraStream.read
\* `with self.lock:` entered by the consumer (process_camera_analysis has
\* passed `while not stream.stopped` and called stream.read()).
\* read() returns self.frame.copy() and assigns nothing: the slot keeps its
\* frame.
SlotClearedByRead(f, c) == [f EXCEPT ![c] = None]
SlotAfterRead(f, c) == f

\* Leaving the `with self.lock:` block of read() releases the lock.
ReadKeepsLock(l, c) == l
ReadReleases(l, c) == [l EXCEPT ![c] = "free"]

R_Acquire(c) ==
    /\ c \in streams
    /\ cpc[c] = "rlock"
    /\ lock[c] = "free"
    /\ lock' = [lock EXCEPT ![c] = "consumer"]
    /\ cpc' = [cpc EXCEPT ![c] = "rcheck"]
    /\ UNCHANGED <<configVars, mainVars, sideVars, now, frame, stopped, sourceVars, producerVars,
                   readVars, alertVars, cycleVars, pubVars, audioVars>>

\* `self.frame is not None`: with no frame held read() returns None and the
\* lock is released; otherwise the reference in self.frame is loaded.
R_Check(c) ==
    /\ c \in streams
    /\ cpc[c] = "rcheck"
    /\ IF frame[c] = None
       THEN /\ lock' = ReadReleases(lock, c)
            /\ cframe' = [cframe EXCEPT ![c] = NoFrame]
            /\ cpc' = [cpc EXCEPT ![c] = "empty"]
            /\ UNCHANGED <<rref, newestAtRead>>
       ELSE /\ rref' = [rref EXCEPT ![c] = frame[c]]
            /\ newestAtRead' = [newestAtRead EXCEPT ![c] = lastPub[c]]
            /\ cpc' = [cpc EXCEPT ![c] = "rcopy1"]
            /\ UNCHANGED <<lock, cframe>>
    /\ UNCHANGED <<configVars, mainVars, sideVars, now, frame, stopped, sourceVars, producerVars,
                   alertVars, cycleVars, pubVars, audioVars>>

\* .copy(): the first part of the buffer is copied.
R_Copy1(c) ==
    /\ c \in streams
    /\ cpc[c] = "rcopy1"
    /\ cframe' = [cframe EXCEPT ![c] = <<heap[c][rref[c]][1], None>>]
    /\ cpc' = [cpc EXCEPT ![c] = "rcopy2"]
    /\ UNCHANGED <<configVars, mainVars, sideVars, now, streamVars, sourceVars, producerVars, rref,
                   newestAtRead, alertVars, cycleVars, pubVars, audioVars>>

\* .copy(): the second part is copied, the copy is returned and the lock
\* released.
R_Copy2(c) ==
    /\ c \in streams
    /\ cpc[c] = "rcopy2"
    /\ cframe' = [cframe EXCEPT ![c] = <<cframe[c][1], heap[c][rref[c]][2]>>]
    /\ lock' = ReadReleases(lock, c)
    /\ frame' = SlotAfterRead(frame, c)
    /\ rref' = [rref EXCEPT ![c] = None]
    /\ cpc' = [cpc EXCEPT ![c] = "got"]
    /\ UNCHANGED <<configVars, mainVars, sideVars, now, stopped, sourceVars, producerVars,
                   newestAtRead, alertVars, cycleVars, pubVars, audioVars>>

Reader(c) ==
    \/ R_Acquire(c)
    \/ R_Check(c)
    \/ R_Copy1(c)
    \/ R_Copy2(c)

\* --------------------------------------- alert tiers: process_camera_analysis
\* `if score >= SCORE_CRITICAL:`
CriticalBranch(score) == score >= SCORE_CRITICAL

\* `elif score >= SCORE_THRESHOLD:`
WarningBranchNoElse(score) == score >= SCORE_THRESHOLD
WarningBranch(score) == ~CriticalBranch(score) /\ score >= SCORE_THRESHOLD

\* `if now - last_siren_alert_at >= SIREN_COOLDOWN:`
SirenDueStrict(t, last) == t - last > SIREN_COOLDOWN
SirenDue(t, last) == t - last >= SIREN_COOLDOWN

\* `if now - last_tts_alert_at >= TTS_COOLDOWN:`
TtsDueAlways(t, last) == TRUE
TtsDue(t, last) == t - last >= TTS_COOLDOWN

\* The CRITICAL branch calls send_telegram first, before any cooldown test.
CriticalNotifiesGated(score, t, last) == CriticalBranch(score) /\ SirenDue(t, last)
CriticalNotifies(score, t, last) == CriticalBranch(score)

\* play_siren_file() is called in the CRITICAL branch when the cooldown is over.
SirenFires(score, t, last) == CriticalBranch(score) /\ SirenDue(t, last)

\* play_audio_tts() is called in the WARNING branch when TTS is enabled and
\* its cooldown is over.
TtsFires(score, t, last, enabled) ==
    WarningBranch(score) /\ enabled /\ TtsDue(t, last)

\* `last_siren_alert_at = now` sits beside play_siren_file(), inside the
\* cooldown test: a skipped siren leaves the timestamp alone.
NextLastSirenAlways(t, last, fired) == t
NextLastSirenNever(t, last, fired) == last
NextLastSiren(t, last, fired) == IF fired THEN t ELSE last

\* `last_tts_alert_at = now` beside play_audio_tts().
NextLastTts(t, last, fired) == IF fired THEN t ELSE last

\* The send_telegram calls of one cycle, by tier.
Notifications(score, t, last) ==
    (IF CriticalNotifies(score, t, last) THEN <<"CRITICAL">> ELSE <<>>)
    \o (IF WarningBranch(score) THEN <<"WARNING">> ELSE <<>>)

\* inject_omnistatus(name, text, score) follows the if/elif unconditionally.
AfterDispatchSkipsOnAlert(score) ==
    IF CriticalBranch(score) \/ WarningBranch(score) THEN "sleep" ELSE "metrics"
AfterDispatch(score) == "metrics"

\* ------------------------------------- consumer: process_camera_analysis
\* `while not stream.stopped:`; a new cycle starts with a call of read().
ConsumerGoesOnRegardless(flag) == TRUE
ConsumerGoesOn(flag) == ~flag

C_LoopCheck(c) ==
    /\ c \in streams
    /\ cpc[c] = "loop"
    /\ cpc' = [cpc EXCEPT ![c] =
                  IF ConsumerGoesOn(stopped[c]) THEN "rlock" ELSE "done"]
    /\ UNCHANGED <<configVars, mainVars, sideVars, now, streamVars, sourceVars, producerVars,
                   readVars, alertVars, cycleVars, pubVars, audioVars>>

\* An empty read is followed by `continue`: back to the loop test.
EmptyReadAnalyzed(pc) == "got"
EmptyRead(pc) == pc

\* `if frame is None: time.sleep(1); continue`
C_Empty(c) ==
    /\ c \in streams
    /\ cpc[c] = "empty"
    /\ cpc' = [cpc EXCEPT ![c] = EmptyRead("loop")]
    /\ UNCHANGED <<configVars, mainVars, sideVars, now, streamVars, sourceVars, producerVars,
                   readVars, alertVars, cycleVars, pubVars, audioVars>>

\* What analyze_llm returns: the reported score and description, or, when
\* anything inside its try raised, score 0.0 and "LLM Analysis Error".
AnalysisResultKeepsScore(outcome, score) ==
    IF outcome = "ok"
    THEN [score |-> score, text |-> "person at the gate"]
    ELSE [score |-> score, text |-> "LLM Analysis Error"]
AnalysisResult(outcome, score) ==
    IF outcome = "ok"
    THEN [score |-> score, text |-> "person at the gate"]
    ELSE [score |-> 0, text |-> "LLM Analysis Error"]

\* resize_if_needed, analyze_llm (the score the service reports, or the 0.0
\* of the except branch), save_last_frame, the log line.
C_Analyze(c) ==
    /\ c \in streams
    /\ cpc[c] = "got"
    /\ \E outcome \in LlmOutcomes, score \in replies[c] :
           /\ res' = [res EXCEPT ![c] = AnalysisResult(outcome, score).score]
           /\ text' = [text EXCEPT ![c] = AnalysisResult(outcome, score).text]
           /\ llmFailed' = [llmFailed EXCEPT ![c] = outcome # "ok"]
    /\ cycleLastSiren' = [cycleLastSiren EXCEPT ![c] = last_siren_alert_at[c]]
    /\ cycleLastTts' = [cycleLastTts EXCEPT ![c] = last_tts_alert_at[c]]
    /\ cpc' = [cpc EXCEPT ![c] = "dispatch"]
    /\ UNCHANGED <<configVars, mainVars, sideVars, now, streamVars, sourceVars, producerVars,
                   readVars, alertVars, notif, sirenCalls, ttsCalls,
                   metricsCalls, metricsArg, callFailed, cycleNow, pubVars,
                   audioVars>>

\* An exception nobody catches ends the thread it was raised in, the
\* process_camera_analysis thread of this camera, and no other thread.
UncaughtEndsAll(f, c) == [d \in DOMAIN f |-> "dead"]
Uncaught(f, c) == [f EXCEPT ![c] = "dead"]

\* to_b64_jpg raises RuntimeError (cv2.imencode failed) at the top of
\* analyze_llm, outside its try: the exception ends the consumer thread.
C_EncodeFail(c) ==
    /\ c \in streams
    /\ cpc[c] = "got"
    /\ cpc' = Uncaught(cpc, c)
    /\ UNCHANGED <<configVars, mainVars, sideVars, now, streamVars, sourceVars, producerVars,
                   readVars, alertVars, cycleVars, pubVars, audioVars>>

\* last_tts_alert_at and last_siren_alert_at are local variables of
\* process_camera_analysis: an assignment changes the value of the thread
\* that makes it and of no other.
ModuleGlobal(f, c, v) == [d \in DOMAIN f |-> v]
Local(f, c, v) == [f EXCEPT ![c] = v]

\* Where the cycle goes after a collaborator call (send_telegram,
\* play_siren_file, play_audio_tts, inject_omnistatus): each catches its own
\* exceptions, so on to the next statement whether or not the call failed.
AfterCallPropagates(failed, pc) == IF failed THEN "dead" ELSE pc
AfterCall(failed, pc) == pc

\* The if/elif on the score: send_telegram, time.time(), the cooldown tests,
\* play_siren_file / play_audio_tts and the timestamp updates. Each
\* collaborator catches its own failure, so a failed call changes nothing
\* but callFailed.
C_Dispatch(c) ==
    /\ c \in streams
    /\ cpc[c] = "dispatch"
    /\ LET score == res[c]
           siren == SirenFires(score, now, last_siren_alert_at[c])
           tts == TtsFires(score, now, last_tts_alert_at[c], TTS_ENABLED)
           sent == Notifications(score, now, last_siren_alert_at[c])
       IN /\ notif' = [notif EXCEPT ![c] = sent]
          /\ sirenCalls' = [sirenCalls EXCEPT ![c] = IF siren THEN 1 ELSE 0]
          /\ ttsCalls' = [ttsCalls EXCEPT ![c] = IF tts THEN 1 ELSE 0]
          /\ last_siren_alert_at' = Local(last_siren_alert_at, c,
                 IF CriticalBranch(score)
                 THEN NextLastSiren(now, last_siren_alert_at[c], siren)
                 ELSE last_siren_alert_at[c])
          /\ last_tts_alert_at' = Local(last_tts_alert_at, c,
                 IF WarningBranch(score) /\ TTS_ENABLED
                 THEN NextLastTts(now, last_tts_alert_at[c], tts)
                 ELSE last_tts_alert_at[c])
          /\ sirenAt' = [sirenAt EXCEPT ![c] = IF siren THEN now ELSE sirenAt[c]]
          /\ ttsAt' = [ttsAt EXCEPT ![c] = IF tts THEN now ELSE ttsAt[c]]
          /\ cycleNow' = [cycleNow EXCEPT ![c] =
                 IF CriticalBranch(score) \/ (WarningBranch(score) /\ TTS_ENABLED)
                 THEN now ELSE NoTime]
          /\ \E failed \in BOOLEAN :
                 LET f == failed /\ (sent # <<>> \/ siren \/ tts)
                 IN /\ callFailed' = [callFailed EXCEPT ![c] = f]
                    /\ cpc' = [cpc EXCEPT ![c] =
                                  AfterCall(f, AfterDispatch(score))]
    /\ UNCHANGED <<configVars, mainVars, sideVars, now, streamVars, sourceVars, producerVars,
                   readVars, res, text, llmFailed, metricsCalls, metricsArg,
                   cycleLastSiren, cycleLastTts, pubVars>>

\* inject_omnistatus(name, text, score); its own try/except keeps a failed
\* POST inside.
C_Metrics(c) ==
    /\ c \in streams
    /\ cpc[c] = "metrics"
    /\ metricsCalls' = [metricsCalls EXCEPT ![c] = metricsCalls[c] + 1]
    /\ metricsArg' = [metricsArg EXCEPT ![c] = Append(metricsArg[c], res[c])]
    /\ \E failed \in BOOLEAN :
           /\ callFailed' = [callFailed EXCEPT ![c] = callFailed[c] \/ failed]
           /\ cpc' = [cpc EXCEPT ![c] = AfterCall(failed, "sleep")]
    /\ UNCHANGED <<configVars, mainVars, sideVars, now, streamVars, sourceVars, producerVars,
                   readVars, alertVars, res, text, llmFailed, notif,
                   sirenCalls, ttsCalls, cycleNow, cycleLastSiren,
                   cycleLastTts, pubVars, audioVars>>

\* time.sleep(INTERVAL): the cycle is over, the next loop test follows.
C_Sleep(c) ==
    /\ c \in streams
    /\ cpc[c] = "sleep"
    /\ cpc' = [cpc EXCEPT ![c] = "loop"]
    /\ res' = [res EXCEPT ![c] = 0]
    /\ text' = [text EXCEPT ![c] = ""]
    /\ llmFailed' = [llmFailed EXCEPT ![c] = FALSE]
    /\ metricsArg' = [metricsArg EXCEPT ![c] = <<>>]
    /\ notif' = [notif EXCEPT ![c] = <<>>]
    /\ sirenCalls' = [sirenCalls EXCEPT ![c] = 0]
    /\ ttsCalls' = [ttsCalls EXCEPT ![c] = 0]
    /\ metricsCalls' = [metricsCalls EXCEPT ![c] = 0]
    /\ callFailed' = [callFailed EXCEPT ![c] = FALSE]
    /\ cycleNow' = [cycleNow EXCEPT ![c] = NoTime]
    /\ cycleLastSiren' = [cycleLastSiren EXCEPT ![c] = 0]
    /\ cycleLastTts' = [cycleLastTts EXCEPT ![c] = 0]
    /\ cframe' = [cframe EXCEPT ![c] = NoFrame]
    /\ newestAtRead' = [newestAtRead EXCEPT ![c] = None]
    /\ UNCHANGED <<configVars, mainVars, sideVars, now, streamVars, sourceVars, producerVars,
                   rref, alertVars, pubVars, audioVars>>

Cycle(c) ==
    \/ C_LoopCheck(c)
    \/ C_Empty(c)
    \/ C_Analyze(c)
    \/ C_EncodeFail(c)
    \/ C_Dispatch(c)
    \/ C_Metrics(c)
    \/ C_Sleep(c)

\* The wall clock advances, up to n steps from its start.
TickUpTo(n) ==
    /\ now < StartTime + n * TickStep
    /\ now' = now + TickStep
    /\ UNCHANGED <<configVars, mainVars, sideVars, streamVars, sourceVars, producerVars, cpc,
                   readVars, alertVars, cycleVars, pubVars, audioVars>>

Tick == TickUpTo(MaxTicks)

\* ------------------------------------------------------- specification
\* One configured camera: its producer thread, its consumer thread, main's
\* stop() and the wall clock, interleaved step by step.
Next ==
    \/ \E c \in Cams : Producer(c) \/ Stop(c) \/ Reader(c) \/ Cycle(c)
    \/ Tick

Spec == Init /\ [][Next]_vars

\* ------------------------------------------------------- heartbeat_loop
cameraVars == <<streamVars, sourceVars, producerVars, cpc, readVars,
                alertVars, cycleVars, pubVars, audioVars>>

\* The guard at the top: return when Telegram or the heartbeat is not
\* configured.
H_Start ==
    /\ hbpc = "start"
    /\ \E configured \in BOOLEAN :
           hbpc' = IF configured THEN "post" ELSE "off"
    /\ UNCHANGED <<configVars, mainVars, now, cameraVars, readFails, giveUpLogs>>

\* requests.post of the running message: it returns, or it raises and
\* control goes to the except clause.
H_Post ==
    /\ hbpc = "post"
    /\ \E failed \in BOOLEAN :
           hbpc' = IF failed THEN "except" ELSE "sleep"
    /\ UNCHANGED <<configVars, mainVars, now, cameraVars, readFails, giveUpLogs>>

\* `except Exception: pass`: the statement after the try is next.
Propagated(pc) == "dead"
Swallowed(pc) == pc

H_Except ==
    /\ hbpc = "except"
    /\ hbpc' = Swallowed("sleep")
    /\ UNCHANGED <<configVars, mainVars, now, cameraVars, readFails, giveUpLogs>>

\* time.sleep(HEARTBEAT_INTERVAL)
H_Sleep ==
    /\ hbpc = "sleep"
    /\ hbpc' = "post"
    /\ UNCHANGED <<configVars, mainVars, now, cameraVars, readFails, giveUpLogs>>

Heartbeat == H_Start \/ H_Post \/ H_Except \/ H_Sleep

\* main's `while True: time.sleep(1)`: nothing of the state changes.
M_Sleep == UNCHANGED vars

\* ------------------------------------------------------------- main
\* What RTSP_URL_<name> can hold in the environment: no such key, the empty
\* string, or a URL.
EnvValues == {"absent", "", "rtsp"}

\* `if not value: continue` of load_cameras_from_env.
SkippedNever(value) == FALSE
Skipped(value) == value = ""

\* The names of the RTSP_URL_ keys whose value is not empty.
load_cameras_from_env(env) ==
    {c \in Cams : env[c] # "absent" /\ ~Skipped(env[c])}

\* `if not CAMERAS:` at the top of main.
NoCamerasNever(cams) == FALSE
NoCameras(cams) == cams = {}

\* `if not CAMERAS: log(...); return`, else the loop over CAMERAS begins.
M_Check ==
    /\ mpc = "check"
    /\ IF NoCameras(CAMERAS)
       THEN mpc' = "exit" /\ UNCHANGED pending
       ELSE mpc' = "cameras" /\ pending' = CAMERAS
    /\ UNCHANGED <<configVars, sideVars, now, cameraVars, environ, CAMERAS,
                   mailboxes, producers, consumers, heartbeats, adminVars, variantVars>>

\* One iteration of `for name, url in CAMERAS.items()`: `if url:` constructs
\* the CameraStream (its __init__ starts the producer thread), records it in
\* streams and starts the consumer thread on it.
M_StartCamera(c) ==
    /\ mpc = "cameras"
    /\ c \in pending
    /\ pending' = pending \ {c}
    /\ IF environ[c] \notin {"absent", ""}
       THEN /\ mailboxes' = [mailboxes EXCEPT ![c] = mailboxes[c] + 1]
            /\ producers' = [producers EXCEPT ![c] = producers[c] + 1]
            /\ streams' = streams \cup {c}
            /\ consumers' = [consumers EXCEPT ![c] = consumers[c] + 1]
       ELSE UNCHANGED <<mailboxes, producers, streams, consumers>>
    /\ UNCHANGED <<TTS_ENABLED, supply, replies, sideVars, now, cameraVars,
                   environ, CAMERAS, mpc, heartbeats, adminVars, variantVars>>

\* The loop over CAMERAS is over: log "Sentinex started."
M_CamerasDone ==
    /\ mpc = "cameras"
    /\ pending = {}
    /\ mpc' = "heartbeat"
    /\ UNCHANGED <<configVars, sideVars, now, cameraVars, environ, CAMERAS,
                   pending, mailboxes, producers, consumers, heartbeats,
                   adminVars, variantVars>>

\* Thread(target=heartbeat_loop, daemon=True).start()
M_StartHeartbeat ==
    /\ mpc = "heartbeat"
    /\ heartbeats' = heartbeats + 1
    /\ hbpc' = "start"
    /\ mpc' = "run"
    /\ UNCHANGED <<configVars, readFails, giveUpLogs, now, cameraVars, environ,
                   CAMERAS, pending, mailboxes, producers, consumers, adminVars, variantVars>>

\* KeyboardInterrupt in the sleep loop: stop() on every stream, then break.
M_Interrupt ==
    /\ mpc = "run"
    /\ stopped' = [c \in Cams |-> stopped[c] \/ c \in streams]
    /\ mpc' = "exit"
    /\ UNCHANGED <<configVars, sideVars, now, frame, lock, sourceVars,
                   producerVars, cpc, readVars, alertVars, cycleVars, pubVars,
                   audioVars, environ, CAMERAS, pending, mailboxes, producers,
                   consumers, heartbeats, adminVars, variantVars>>

Main ==
    \/ M_Check
    \/ \E c \in Cams : M_StartCamera(c)
    \/ M_CamerasDone
    \/ M_StartHeartbeat
    \/ M_Interrupt

\* ------------------------------------- the producer and its read failures
\* The producer of the configured camera alone, with the number of
\* consecutive failed reads recorded.
S_ReadOk(c) ==
    /\ ReadOk(c)
    /\ readFails' = [readFails EXCEPT ![c] = 0]

S_ReadFail(c) ==
    /\ readFails[c] < MaxReadFails
    /\ ReadFail(c)
    /\ readFails' = [readFails EXCEPT ![c] = readFails[c] + 1]

Source(c) ==
    \/ P_LoopCheck(c)
    \/ P_OpenFail(c)
    \/ P_OpenOk(c)
    \/ P_InnerCheck(c)
    \/ S_ReadOk(c)
    \/ S_ReadFail(c)
    \/ P_Acquire(c)
    \/ P_Store(c)
    \/ P_Release(c)

NextSource == \E c \in Cams : Source(c)

SpecSource == Init /\ [][NextSource]_vars

\* ------------------------------------------- one camera, fair scheduling
\* The producer and the consumer of one camera and main's stop(), with a
\* source of MaxFrames captures. Every thread that can run is eventually
\* scheduled; stop() may come at any time or never.
InitLive ==
    /\ streams = {"GATE"}
    /\ TTS_ENABLED = TRUE
    /\ supply = [c \in Cams |-> MaxFrames]
    /\ replies = [c \in Cams |-> {0, 90}]
    /\ InitThreads
    /\ MainStarted

NextLive == \E c \in Cams : Producer(c) \/ Stop(c) \/ Reader(c) \/ Cycle(c)

\* A thread blocked on the lock is woken when the lock is released, and the
\* other thread sleeps (10 ms, 1 s or INTERVAL) before it asks again: a lock
\* that is free again and again is obtained.
FairThreads ==
    \A c \in Cams :
        /\ WF_vars(Producer(c))
        /\ WF_vars(Reader(c) \/ Cycle(c))
        /\ SF_vars(P_Acquire(c))
        /\ SF_vars(R_Acquire(c))

SpecLive == InitLive /\ [][NextLive]_vars /\ FairThreads

\* --------------------------------- one camera and the heartbeat, fair
\* The threads of one camera and the heartbeat thread, each scheduled
\* whenever it can run.
NextBeat == NextLive \/ Heartbeat

SpecBeat == InitLive /\ [][NextBeat]_vars /\ FairThreads /\ WF_vars(Heartbeat)

\* ------------------------------------------------------- two cameras
\* A source that opens at every attempt.
SourceUp(c) ==
    \/ P_LoopCheck(c)
    \/ P_OpenOk(c)
    \/ P_InnerCheck(c)
    \/ P_ReadOk(c)
    \/ P_ReadFail(c)
    \/ P_Acquire(c)
    \/ P_Store(c)
    \/ P_Release(c)

\* A source that never opens.
SourceDown(c) ==
    \/ P_LoopCheck(c)
    \/ P_OpenFail(c)

\* Both cameras configured, each with its producer and consumer thread, the
\* heartbeat thread and main. GATE's source opens at every attempt and
\* delivers CamsFrames captures; YARD's source never opens.
InitCams ==
    /\ streams = Cams
    /\ TTS_ENABLED = TRUE
    /\ supply = [c \in Cams |-> CamsFrames]
    /\ replies = [c \in Cams |-> Scores]
    /\ InitThreads
    /\ MainStarted

NextCams ==
    \/ SourceUp("GATE")
    \/ SourceDown("YARD")
    \/ \E c \in Cams : Reader(c) \/ Cycle(c)
    \/ Heartbeat
    \/ M_Sleep

SpecCams == InitCams /\ [][NextCams]_vars

\* A source that opens at the first attempt and whose reads do not fail.
SourceSteady(c) ==
    \/ P_LoopCheck(c)
    \/ P_OpenOk(c)
    \/ P_InnerCheck(c)
    \/ P_ReadOk(c)
    \/ P_Acquire(c)
    \/ P_Store(c)

\* A consumer whose frames always encode.
CycleSteady(c) ==
    \/ C_LoopCheck(c)
    \/ C_Empty(c)
    \/ C_Analyze(c)
    \/ C_Dispatch(c)
    \/ C_Metrics(c)
    \/ C_Sleep(c)

\* Both cameras configured with steady sources; the scene at GATE is scored
\* as critical, the scene at YARD as a warning, and the wall clock advances.
InitAlerts ==
    /\ streams = Cams
    /\ TTS_ENABLED = TRUE
    /\ supply = [c \in Cams |-> CamsFrames]
    /\ replies = [c \in Cams |-> IF c = "GATE" THEN {90} ELSE {SCORE_THRESHOLD}]
    /\ InitThreads
    /\ MainStarted

TickAlerts == TickUpTo(AlertTicks)

NextAlerts ==
    \/ \E c \in Cams : SourceSteady(c) \/ Reader(c) \/ CycleSteady(c)
    \/ TickAlerts

SpecAlerts == InitAlerts /\ [][NextAlerts]_vars

\* ------------------------------------------------- the admin service
\* POST /cameras/{name}/rename: both names are normalized, then
\* rename_camera runs on the .env file.
rename(name, new_name) ==
    LET old == normalize_name(name)
        new == normalize_name(new_name)
    IN /\ before' = envfile
       /\ envfile' = rename_camera(envfile, old, new)
       /\ lastRename' = [called |-> TRUE, old |-> old, new |-> new,
                         ok |-> rename_found(envfile, old)]
       /\ UNCHANGED <<configVars, sideVars, now, cameraVars, environ, CAMERAS,
                      mpc, pending, mailboxes, producers, consumers,
                      heartbeats, variantVars>>

\* The .env file the service finds: for each name no camera, or a URL
\* (possibly empty) with or without a prompt.
UrlEntries == {NoEntry, Plain(""), Plain("rtsp://a"), Plain("rtsp://b")}
PromptEntries == {NoEntry, Plain("watch a"), Plain("watch b")}

InitAdmin ==
    /\ streams = {}
    /\ TTS_ENABLED = TRUE
    /\ supply = [c \in Cams |-> CamsFrames]
    /\ replies = [c \in Cams |-> Scores]
    /\ InitThreads
    /\ environ = [c \in Cams |-> "absent"]
    /\ CAMERAS = {}
    /\ mpc = "check"
    /\ pending = {}
    /\ mailboxes = [c \in Cams |-> 0]
    /\ producers = [c \in Cams |-> 0]
    /\ consumers = [c \in Cams |-> 0]
    /\ heartbeats = 0
    /\ hbpc = "none"
    /\ envfile \in [Names -> [url : UrlEntries, prompt : PromptEntries]]
    /\ before = envfile
    /\ lastRename = [called |-> FALSE, old |-> <<>>, new |-> <<>>, ok |-> FALSE]
    /\ VariantsIdle

NextAdmin == \E name \in RawNames, new_name \in RawNames : rename(name, new_name)

SpecAdmin == InitAdmin /\ [][NextAdmin]_vars

\* ------------------------------------------- the single-camera programs
\* Everything that belongs to sentinex.py and sentinex_admin.py.
sentinexVars ==
    <<configVars, sideVars, now, cameraVars, environ, CAMERAS, mpc, pending,
      mailboxes, producers, consumers, heartbeats, adminVars>>

min(a, b) == IF a < b THEN a ELSE b

\* sentinex_cam1.py, iniciar_stream:
\* wait = min(backoff_start * (2 ** retries), backoff_max)
\* (k: the value of the local retries)
BackoffWaitUncapped(k) == BackoffStart * (2 ^ k)
BackoffWait(k) == min(BackoffStart * (2 ^ k), BackoffMax)

\* main calls iniciar_stream(): `retries = 0`.
Cam1_Call ==
    /\ cam1.pc = "call"
    /\ cam1.calls < MaxCalls
    /\ cam1' = [cam1 EXCEPT !.pc = "open", !.retries = 0, !.waits = <<>>,
                            !.calls = cam1.calls + 1]
    /\ UNCHANGED <<sentinexVars, nano>>

\* cv2.VideoCapture(RTSP_URL) did not open: compute wait, sleep, count, and
\* go round the loop.
Cam1_OpenFail ==
    /\ cam1.pc = "open"
    /\ cam1.retries < MaxOpenFails
    /\ cam1' = [cam1 EXCEPT !.wait = BackoffWait(cam1.retries),
                            !.waits = Append(cam1.waits, BackoffWait(cam1.retries)),
                            !.retries = cam1.retries + 1]
    /\ UNCHANGED <<sentinexVars, nano>>

\* The capture opened: `return cap`, main enters or resumes its loop.
Cam1_OpenOk ==
    /\ cam1.pc = "open"
    /\ cam1' = [cam1 EXCEPT !.cap = TRUE, !.pc = "read"]
    /\ UNCHANGED <<sentinexVars, nano>>

\* cap.read() gave a frame: the cycle (analysis, alert, sleep) follows.
Cam1_ReadOk ==
    /\ cam1.pc = "read"
    /\ cam1' = [cam1 EXCEPT !.pc = "cycle"]
    /\ UNCHANGED <<sentinexVars, nano>>

Cam1_Cycle ==
    /\ cam1.pc = "cycle"
    /\ cam1' = [cam1 EXCEPT !.pc = "read"]
    /\ UNCHANGED <<sentinexVars, nano>>

\* cap.read() failed: cap.release() and iniciar_stream() is called again.
Cam1_ReadFail ==
    /\ cam1.pc = "read"
    /\ cam1' = [cam1 EXCEPT !.cap = FALSE, !.pc = "call"]
    /\ UNCHANGED <<sentinexVars, nano>>

Cam1 ==
    \/ Cam1_Call
    \/ Cam1_OpenFail
    \/ Cam1_OpenOk
    \/ Cam1_ReadOk
    \/ Cam1_Cycle
    \/ Cam1_ReadFail

\* sentinex_nano.py, main.
\* wait_time = min(30, 10 * reconnect_attempts)
ReconnectWait(reconnect_attempts) ==
    min(ReconnectWaitMax, ReconnectWaitStep * reconnect_attempts)

\* `reconnect_attempts = 0` after a successful connection.
AttemptsKept(reconnect_attempts) == reconnect_attempts
AttemptsAfterConnect(reconnect_attempts) == 0

\* create_rtsp_capture_chinese_cam returned nothing: count the attempt, end
\* the loop at max_reconnect_attempts, otherwise wait and try again.
Nano_ConnectFail ==
    /\ nano.pc = "connect"
    /\ LET attempts == nano.reconnect_attempts + 1
       IN nano' = [nano EXCEPT
                     !.reconnect_attempts = attempts,
                     !.failsInRow = nano.failsInRow + 1,
                     !.wait_time = IF attempts >= MaxReconnectAttempts
                                   THEN nano.wait_time
                                   ELSE ReconnectWait(attempts),
                     !.pc = IF attempts >= MaxReconnectAttempts
                            THEN "ended" ELSE "connect"]
    /\ UNCHANGED <<sentinexVars, cam1>>

\* A capture was returned: both counters start at 0 and the inner loop runs.
Nano_ConnectOk ==
    /\ nano.pc = "connect"
    /\ nano' = [nano EXCEPT
                  !.reconnect_attempts = AttemptsAfterConnect(nano.reconnect_attempts),
                  !.failsInRow = 0,
                  !.consecutive_errors = 0,
                  !.errorsInRow = 0,
                  !.cap = TRUE,
                  !.pc = "read"]
    /\ UNCHANGED <<sentinexVars, cam1>>

\* cap.read() failed: count it; at max_consecutive_errors break, otherwise
\* sleep 2 s and read again.
Nano_ReadFail ==
    /\ nano.pc = "read"
    /\ LET errors == nano.consecutive_errors + 1
       IN nano' = [nano EXCEPT
                     !.consecutive_errors = errors,
                     !.errorsInRow = nano.errorsInRow + 1,
                     !.pc = IF errors >= MaxConsecutiveErrors
                            THEN "release" ELSE "read"]
    /\ UNCHANGED <<sentinexVars, cam1>>

\* cap.read() gave a frame: `consecutive_errors = 0`; the frame is skipped
\* or analyzed.
Nano_ReadOk ==
    /\ nano.pc = "read"
    /\ nano' = [nano EXCEPT !.consecutive_errors = 0, !.errorsInRow = 0,
                            !.pc = "frame"]
    /\ UNCHANGED <<sentinexVars, cam1>>

\* The interval test and the analysis inside try/except, back to the read.
Nano_Frame ==
    /\ nano.pc = "frame"
    /\ nano' = [nano EXCEPT !.pc = "read"]
    /\ UNCHANGED <<sentinexVars, cam1>>

\* cap.release(), sleep 5 s, back to the outer loop.
Nano_Release ==
    /\ nano.pc = "release"
    /\ nano' = [nano EXCEPT !.cap = FALSE, !.pc = "connect"]
    /\ UNCHANGED <<sentinexVars, cam1>>

Nano ==
    \/ Nano_ConnectFail
    \/ Nano_ConnectOk
    \/ Nano_ReadFail
    \/ Nano_ReadOk
    \/ Nano_Frame
    \/ Nano_Release

\* The two programs, each its own process, side by side.
InitVariants ==
    /\ streams = {}
    /\ TTS_ENABLED = TRUE
    /\ supply = [c \in Cams |-> CamsFrames]
    /\ replies = [c \in Cams |-> Scores]
    /\ InitThreads
    /\ environ = [c \in Cams |-> "absent"]
    /\ CAMERAS = {}
    /\ mpc = "check"
    /\ pending = {}
    /\ mailboxes = [c \in Cams |-> 0]
    /\ producers = [c \in Cams |-> 0]
    /\ consumers = [c \in Cams |-> 0]
    /\ heartbeats = 0
    /\ hbpc = "none"
    /\ AdminIdle
    /\ VariantsIdle

NextVariants == Cam1 \/ Nano

SpecVariants == InitVariants /\ [][NextVariants]_vars

\* ------------------------------------------- the process from its start
\* The process from its start: any environment, nothing constructed yet.
InitMain ==
    /\ streams = {}
    /\ TTS_ENABLED = TRUE
    /\ supply = [c \in Cams |-> CamsFrames]
    /\ replies = [c \in Cams |-> Scores]
    /\ InitThreads
    /\ environ \in [Cams -> EnvValues]
    /\ CAMERAS = load_cameras_from_env(environ)
    /\ mpc = "check"
    /\ pending = {}
    /\ mailboxes = [c \in Cams |-> 0]
    /\ producers = [c \in Cams |-> 0]
    /\ consumers = [c \in Cams |-> 0]
    /\ heartbeats = 0
    /\ hbpc = "none"
    /\ AdminIdle
    /\ VariantsIdle

\* main, the heartbeat thread, and the producer threads main has started,
\* here on sources that do not open.
NextMain == Main \/ Heartbeat \/ \E c \in Cams : SourceDown(c)

SpecMain == InitMain /\ [][NextMain]_vars

\* --------------------------------------------------------- properties
\* Positions of the consumer at which read() has returned a frame.
HoldsCopy(c) == cpc[c] \in {"got", "dispatch", "metrics", "sleep", "dead"}
\* Positions of the consumer after the if/elif of the cycle.
Dispatched(c) == cpc[c] \in {"metrics", "sleep"}
IsCritical(c) == res[c] >= SCORE_CRITICAL
IsWarning(c) == res[c] >= SCORE_THRESHOLD /\ res[c] < SCORE_CRITICAL
\* The tiers whose effects the cycle has fired.
TiersFired(c) ==
    {notif[c][i] : i \in 1..Len(notif[c])}
    \cup (IF sirenCalls[c] > 0 THEN {"CRITICAL"} ELSE {})
    \cup (IF ttsCalls[c] > 0 THEN {"WARNING"} ELSE {})

\* C1. Mailbox atomicity: whatever the interleaving of the producer's
\* publishes with the consumer's read(), a read returns None or the two
\* parts of one capture, and that capture was the argument of a publish;
\* it never returns parts of two captures.
C1_MailboxAtomicity ==
    \A c \in Cams :
        /\ cpc[c] = "empty" => cframe[c] = NoFrame
        /\ HoldsCopy(c) =>
               /\ cframe[c][1] = cframe[c][2]
               /\ cframe[c][1] \in pubSeqs[c]

\* C1 witness: the consumer is in the middle of its copy of capture 1 while
\* the producer waits at the lock with capture 2.
C1_Witness ==
    /\ cpc["GATE"] = "rcopy2"
    /\ cframe["GATE"][1] = 1
    /\ ppc["GATE"] = "publish"
    /\ captured["GATE"] = 2

\* C2. Newest write wins: the slot holds no frame or one, the one of the
\* most recently completed publish; a read loads that one and returns a copy
\* of it, never of an older publish.
C2_NewestWriteWins ==
    \A c \in Cams :
        /\ frame[c] \in {None} \cup BufIds
        /\ frame[c] = lastPub[c]
        /\ cpc[c] \in {"rcopy1", "rcopy2"} => rref[c] = lastPub[c]
        /\ cpc[c] = "got" =>
               /\ newestAtRead[c] # None
               /\ cframe[c] = heap[c][newestAtRead[c]]

\* C2 witness: after two publishes a read has returned the second capture.
C2_Witness ==
    /\ cpc["GATE"] = "got"
    /\ pubSeqs["GATE"] = {1, 2}
    /\ cframe["GATE"] = FrameOf(2)

\* C3. Tier precedence: a cycle fires the effects of at most one tier, and
\* with score >= SCORE_CRITICAL only CRITICAL effects (no WARNING
\* notification, no TTS).
C3_TierPrecedence ==
    \A c \in Cams :
        Dispatched(c) =>
            /\ Cardinality(TiersFired(c)) <= 1
            /\ IsCritical(c) => TiersFired(c) \subseteq {"CRITICAL"} /\ ttsCalls[c] = 0

\* C3 witness: a cycle with score 0.9 has sent the CRITICAL notification and
\* played the siren.
C3_Witness ==
    /\ cpc["GATE"] = "metrics"
    /\ res["GATE"] = 90
    /\ notif["GATE"] = <<"CRITICAL">>
    /\ sirenCalls["GATE"] = 1

\* C4. The CRITICAL notification is not cooldown-gated: every cycle with
\* score >= SCORE_CRITICAL makes exactly one send_telegram call, the
\* CRITICAL one, whatever the siren cooldown state.
C4_CriticalAlwaysNotifies ==
    \A c \in Cams :
        Dispatched(c) /\ IsCritical(c) => notif[c] = <<"CRITICAL">>

\* C4 witness: a CRITICAL cycle inside the siren cooldown (the siren was
\* skipped) has sent its notification.
C4_Witness ==
    /\ cpc["GATE"] = "metrics"
    /\ IsCritical("GATE")
    /\ sirenCalls["GATE"] = 0
    /\ cycleNow["GATE"] - cycleLastSiren["GATE"] < SIREN_COOLDOWN
    /\ notif["GATE"] = <<"CRITICAL">>

\* C5. In a CRITICAL cycle the siren is played if and only if
\* now - last_siren_alert_at >= SIREN_COOLDOWN (once, and the notification
\* is sent either way); the first CRITICAL cycle after start-up plays it.
C5_SirenIffCooldownOver ==
    \A c \in Cams :
        Dispatched(c) /\ IsCritical(c) =>
            /\ sirenCalls[c] \in {0, 1}
            /\ sirenCalls[c] = 1 <=>
                   cycleNow[c] - cycleLastSiren[c] >= SIREN_COOLDOWN
            /\ cycleLastSiren[c] = 0 => sirenCalls[c] = 1
            /\ Len(notif[c]) = 1

\* C5 witness: a CRITICAL cycle plays the siren again, a cooldown after an
\* earlier CRITICAL cycle played it.
C5_Witness ==
    /\ cpc["GATE"] = "metrics"
    /\ IsCritical("GATE")
    /\ sirenCalls["GATE"] = 1
    /\ cycleLastSiren["GATE"] >= StartTime
    /\ cycleNow["GATE"] - cycleLastSiren["GATE"] >= SIREN_COOLDOWN

\* C6 as claimed: every CRITICAL cycle sets last_siren_alert_at to the
\* current time, also when the siren is skipped.
C6_RefreshedEveryCriticalCycle ==
    \A c \in Cams :
        Dispatched(c) /\ IsCritical(c) => last_siren_alert_at[c] = cycleNow[c]

\* C6 amended. A CRITICAL cycle sets last_siren_alert_at to the current time
\* exactly when it plays the siren; a cycle that skips the siren leaves
\* last_siren_alert_at as it was.
C6_RefreshedOnlyWhenSirenPlays ==
    \A c \in Cams :
        Dispatched(c) /\ IsCritical(c) =>
            last_siren_alert_at[c] =
                IF sirenCalls[c] = 1 THEN cycleNow[c] ELSE cycleLastSiren[c]

\* C6 witness: a CRITICAL cycle skipped the siren at a time later than the
\* timestamp, and the timestamp is the old one.
C6_Witness ==
    /\ cpc["GATE"] = "metrics"
    /\ IsCritical("GATE")
    /\ sirenCalls["GATE"] = 0
    /\ cycleNow["GATE"] > cycleLastSiren["GATE"]
    /\ last_siren_alert_at["GATE"] = cycleLastSiren["GATE"]

\* C7. Cooldown as minimum spacing: per camera, a play_siren_file call comes
\* at least SIREN_COOLDOWN after the previous one, and a play_audio_tts call
\* at least TTS_COOLDOWN after the previous one.
C7_MinimumSpacing ==
    [][\A c \in Cams :
          /\ (sirenCalls'[c] > sirenCalls[c] /\ sirenAt[c] # NoTime)
                 => sirenAt'[c] - sirenAt[c] >= SIREN_COOLDOWN
          /\ (ttsCalls'[c] > ttsCalls[c] /\ ttsAt[c] # NoTime)
                 => ttsAt'[c] - ttsAt[c] >= TTS_COOLDOWN]_vars

\* C7 witness: the spoken alert has been played a second time and the siren
\* has been played too.
C7_Witness ==
    /\ ttsCalls["GATE"] = 1
    /\ cycleLastTts["GATE"] >= StartTime
    /\ ttsAt["GATE"] > cycleLastTts["GATE"]
    /\ sirenAt["GATE"] # NoTime

\* C8. WARNING tier: a cycle with SCORE_THRESHOLD <= score < SCORE_CRITICAL
\* sends exactly one notification and never plays the siren; the spoken
\* alert is played only if TTS is enabled and
\* now - last_tts_alert_at >= TTS_COOLDOWN; last_siren_alert_at is unchanged.
C8_WarningTier ==
    \A c \in Cams :
        Dispatched(c) /\ IsWarning(c) =>
            /\ notif[c] = <<"WARNING">>
            /\ sirenCalls[c] = 0
            /\ ttsCalls[c] \in {0, 1}
            /\ ttsCalls[c] = 1 =>
                   /\ TTS_ENABLED
                   /\ cycleNow[c] - cycleLastTts[c] >= TTS_COOLDOWN
            /\ last_siren_alert_at[c] = cycleLastSiren[c]

\* C8 witness: a WARNING cycle at the threshold itself, after a siren has been
\* played, sends its notification while the spoken alert is still cooling
\* down.
C8_Witness ==
    /\ cpc["GATE"] = "metrics"
    /\ res["GATE"] = SCORE_THRESHOLD
    /\ notif["GATE"] = <<"WARNING">>
    /\ TTS_ENABLED
    /\ ttsCalls["GATE"] = 0
    /\ cycleLastTts["GATE"] >= StartTime
    /\ last_siren_alert_at["GATE"] >= StartTime

Analyzed(c) == cpc[c] \in {"dispatch", "metrics", "sleep"}

\* C11. Sentinel result on inference failure: when the inference call fails
\* (timeout, HTTP error, malformed or non-object JSON, non-numeric score) the
\* result has score 0.0 and a non-empty error description; the cycle sends
\* no notification, plays neither siren nor spoken alert, leaves both
\* timestamps alone, and still hands the score 0.0 to the metrics
\* collaborator.
C11_SentinelOnInferenceFailure ==
    \A c \in Cams :
        Analyzed(c) /\ llmFailed[c] =>
            /\ res[c] = 0
            /\ text[c] # ""
            /\ Dispatched(c) =>
                   /\ notif[c] = <<>>
                   /\ sirenCalls[c] = 0
                   /\ ttsCalls[c] = 0
                   /\ last_siren_alert_at[c] = cycleLastSiren[c]
                   /\ last_tts_alert_at[c] = cycleLastTts[c]
            /\ cpc[c] = "sleep" => metricsArg[c] = <<0>>

\* C11 witness: a cycle whose inference call failed has reported to the
\* metrics collaborator.
C11_Witness ==
    /\ cpc["GATE"] = "sleep"
    /\ llmFailed["GATE"]
    /\ text["GATE"] = "LLM Analysis Error"
    /\ metricsArg["GATE"] = <<0>>

\* C12 as claimed: no analysis error ends the analysis loop of a camera. The
\* JPEG encoding of analyze_llm runs before its try block, so a frame that
\* cannot be encoded raises out of process_camera_analysis and the thread
\* ends.
C12_LoopSurvivesAnalysisError ==
    \A c \in Cams : cpc[c] # "dead"

\* C13 as claimed: the score is clamped to [0, 1] before it is compared with
\* the thresholds and before it is handed to notifier and metrics.
C13_ScoreClamped ==
    \A c \in Cams :
        /\ Analyzed(c) => res[c] \in 0..100
        /\ \A i \in 1..Len(metricsArg[c]) : metricsArg[c][i] \in 0..100

\* C14 as claimed: the wait after the k-th consecutive failed open is
\* min(base * 2^k, cap), here with the base of 5 s the code sleeps first and
\* the cap of 60 s of iniciar_stream.
C14_ExponentialBackoff ==
    \A c \in Cams :
        ppc[c] = "loop" /\ retries[c] > 0 =>
            wait[c] = RetryWaitDoubling(retries[c] - 1)

\* C14 amended. The wait after every failed open is the same 5 s, whatever
\* the number of consecutive failures: the sequence of waits is constant
\* (so non-decreasing) and never exceeds 5 s.
C14_FixedRetryWait ==
    \A c \in Cams :
        ppc[c] = "loop" /\ retries[c] > 0 => wait[c] = OpenRetryWait

\* C14 witness: the third consecutive failed open has just been slept on.
C14_Witness ==
    /\ ppc["GATE"] = "loop"
    /\ retries["GATE"] = 3
    /\ wait["GATE"] = OpenRetryWait
\* ---- the producer's retry budget
\* The steps of the producer of a camera in the two-camera system.
ProducerStep(c) == IF c = "GATE" THEN SourceUp(c) ELSE SourceDown(c)

\* C15. Permanent stop: once the failed opens exceed the retry budget the
\* producer has set stopped, which is never cleared; it makes no further
\* connection attempt and no further mailbox write; and the step that sets
\* the flag leaves the flag and the mailbox of every other camera as they
\* were.
C15_PermanentStop ==
    [][\A c \in Cams :
          /\ stopped[c] => stopped'[c]
          /\ retries[c] > MaxRetries =>
                 /\ stopped[c]
                 /\ ppc[c] \in {"loop", "done"}
                 /\ ppc'[c] \in {"loop", "done"}
                 /\ retries'[c] = retries[c]
                 /\ frame'[c] = frame[c]
          /\ stopped'[c] /\ ~stopped[c] =>
                 /\ retries'[c] > MaxRetries
                 /\ \A d \in Cams \ {c} :
                        /\ stopped'[d] = stopped[d]
                        /\ frame'[d] = frame[d]]_vars

\* C15 witness: YARD's producer has given up and ended while GATE's producer,
\* not stopped, is about to write its mailbox.
C15_Witness ==
    /\ retries["YARD"] > MaxRetries
    /\ stopped["YARD"]
    /\ ppc["YARD"] = "done"
    /\ ~stopped["GATE"]
    /\ ppc["GATE"] = "store"

\* C16 as claimed: 11 consecutive failed reads with a budget of 10 stop the
\* producer with exactly one log line.
C16_ReadFailuresExhaustBudget ==
    \A c \in Cams :
        readFails[c] > MaxRetries => stopped[c] /\ giveUpLogs[c] = 1

\* C16 amended. The budget counts failed opens: after the 11th consecutive
\* failed open the producer is stopped, has logged its giving up exactly
\* once and is on its way out of the loop, away from the mailbox; before
\* that it has logged nothing; and a failed read leaves the counter and the
\* flag as they were, however many reads have failed in a row.
C16_OpenFailuresExhaustBudget ==
    \A c \in Cams :
        /\ giveUpLogs[c] = IF retries[c] > MaxRetries THEN 1 ELSE 0
        /\ stopped[c] <=> retries[c] > MaxRetries
        /\ retries[c] > MaxRetries => ppc[c] \in {"loop", "done"}
        /\ readFails[c] > 0 /\ ppc[c] = "release" =>
               retries[c] = 0 /\ ~stopped[c]

\* C16 witness: the producer has ended after 11 failed opens, with one log
\* line, having seen failed reads before.
C16_Witness ==
    /\ retries["GATE"] = MaxRetries + 1
    /\ stopped["GATE"]
    /\ giveUpLogs["GATE"] = 1
    /\ ppc["GATE"] = "done"
    /\ readFails["GATE"] > 0

\* C17 as claimed: a failed read is retried on the same connection until the
\* count of consecutive failures reaches the threshold (the
\* max_consecutive_errors of sentinex_nano.py).
C17_RetriedOnSameConnection ==
    [][\A c \in Cams :
          readFails'[c] > readFails[c] /\ readFails'[c] < MaxConsecutiveErrors
              => capOpen'[c] /\ ppc'[c] \in {"inner", "read"}]_vars

\* C17 amended. A successful read goes on to publish that frame into the
\* mailbox. No failed read is retried on its connection: the first one
\* releases the source and sends the producer back to a new connection
\* attempt, without touching retries; retries is set to 0 by every
\* successful open.
C17_FailedReadReconnects ==
    [][\A c \in Cams :
          /\ captured'[c] > captured[c] => ppc'[c] = "publish"
          /\ ppc[c] = "store" /\ ppc'[c] # "store" =>
                 frame'[c] = pframe[c] /\ ppc'[c] = "inner"
          /\ readFails'[c] > readFails[c] =>
                 /\ ~capOpen'[c]
                 /\ ppc'[c] = "release"
                 /\ retries'[c] = retries[c]
          /\ ppc[c] = "release" /\ ppc'[c] # "release" => ppc'[c] = "loop"
          /\ capOpen'[c] /\ ~capOpen[c] => retries'[c] = 0]_vars

\* C17 witness: after a published frame two reads in a row have failed, each
\* on its own connection, and the producer reads on a third.
C17_Witness ==
    /\ frame["GATE"] # None
    /\ readFails["GATE"] = 2
    /\ capOpen["GATE"]
    /\ ppc["GATE"] = "read"

\* C28. retries counts consecutive failed opens only: it changes only at an
\* open, by +1 when the open fails and to 0 when it succeeds; a failed read
\* changes neither retries nor stopped; stopped is set exactly by the failed
\* open that takes retries from 10 to 11; and after failed reads, however
\* many in a row, a producer whose opens succeed is not stopped and does not
\* leave its loop.
C28_CountsConsecutiveOpenFailures ==
    [][\A c \in Cams :
          /\ retries'[c] # retries[c] =>
                 /\ ppc[c] = "open"
                 /\ \/ ~capOpen'[c] /\ retries'[c] = retries[c] + 1
                    \/ capOpen'[c] /\ retries'[c] = 0
          /\ ppc[c] = "open" /\ ppc'[c] = "inner" => retries'[c] = 0
          /\ ppc[c] = "open" /\ ppc'[c] = "loop" => retries'[c] = retries[c] + 1
          /\ readFails'[c] # readFails[c] =>
                 retries'[c] = retries[c] /\ stopped'[c] = stopped[c]
          /\ stopped'[c] # stopped[c] =>
                 /\ stopped'[c]
                 /\ ppc[c] = "open" /\ ~capOpen'[c]
                 /\ retries[c] = MaxRetries /\ retries'[c] = MaxRetries + 1
          /\ readFails[c] > 0 /\ retries[c] = 0 =>
                 ~stopped[c] /\ ppc'[c] # "done"]_vars

\* C28 witness: more reads in a row have failed than the retry budget allows
\* opens, each after a successful open, and the producer, not stopped, reads
\* on a fresh connection with retries at 0.
C28_Witness ==
    /\ readFails["GATE"] = MaxRetries + 1
    /\ retries["GATE"] = 0
    /\ ~stopped["GATE"]
    /\ capOpen["GATE"]
    /\ ppc["GATE"] = "read"

\* ---- isolation
\* Everything that belongs to one camera.
CamState(c) ==
    <<frame[c], lock[c], stopped[c], heap[c], captured[c], ppc[c], retries[c],
      capOpen[c], pframe[c], wait[c], cpc[c], rref[c], cframe[c], res[c],
      text[c], last_tts_alert_at[c], last_siren_alert_at[c], notif[c],
      sirenCalls[c], ttsCalls[c], metricsCalls[c], metricsArg[c],
      llmFailed[c], callFailed[c], cycleNow[c], cycleLastSiren[c],
      cycleLastTts[c], lastPub[c], pubSeqs[c], newestAtRead[c], sirenAt[c],
      ttsAt[c], readFails[c], giveUpLogs[c]>>

\* The producer of c has stopped for good or the consumer of c has died.
Failed(c) == giveUpLogs[c] > 0 \/ cpc[c] = "dead"

\* The producer of d can take a step, or waits for the lock d's consumer holds.
ProducerRuns(d) ==
    \/ ENABLED ProducerStep(d)
    \/ ppc[d] = "publish" /\ lock[d] = "consumer"

\* The consumer of d can take a step, or waits for the lock d's producer holds.
ConsumerRuns(d) ==
    \/ ENABLED (Reader(d) \/ Cycle(d))
    \/ cpc[d] = "rlock" /\ lock[d] = "producer"

\* C18. Failure isolation: a step of one camera's threads changes nothing
\* that belongs to another camera and nothing of the heartbeat; and while
\* one camera has failed (producer stopped for good, or consumer dead), the
\* producer and consumer of every other camera that has not itself stopped
\* or died, the heartbeat and main can all still take their steps.
C18_FailureIsolation ==
    [][/\ \A c \in Cams : \A d \in Cams \ {c} :
             /\ CamState(c)' # CamState(c) =>
                    CamState(d)' = CamState(d) /\ hbpc' = hbpc
             /\ Failed(c) =>
                    /\ ~stopped[d] => ProducerRuns(d)
                    /\ ~stopped[d] /\ cpc[d] # "dead" => ConsumerRuns(d)
                    /\ hbpc # "off" => ENABLED Heartbeat
                    /\ ENABLED M_Sleep
       /\ \A d \in Cams : stopped'[d] => giveUpLogs'[d] > 0]_vars

\* C18 witness: GATE's consumer is dead, YARD's producer has stopped for
\* good and YARD's consumer has left its loop, and GATE's producer, not
\* stopped, is reading from its source while the heartbeat is between two
\* messages.
C18_Witness ==
    /\ cpc["GATE"] = "dead"
    /\ giveUpLogs["YARD"] = 1
    /\ cpc["YARD"] = "done"
    /\ ~stopped["GATE"]
    /\ ppc["GATE"] = "read"
    /\ capOpen["GATE"]
    /\ hbpc = "sleep"

\* C19. Collaborator failures are contained: a cycle in which a call to
\* send_telegram, play_siren_file, play_audio_tts or inject_omnistatus has
\* failed goes on like any other, and its timestamps are those the decisions
\* of the cycle dictate, the same as when the call succeeds.
C19_CollaboratorFailureContained ==
    \A c \in Cams :
        callFailed[c] =>
            /\ Dispatched(c)
            /\ cpc[c] = "sleep" => metricsCalls[c] = 1
            /\ last_siren_alert_at[c] =
                   IF sirenCalls[c] = 1 THEN cycleNow[c] ELSE cycleLastSiren[c]
            /\ last_tts_alert_at[c] =
                   IF ttsCalls[c] = 1 THEN cycleNow[c] ELSE cycleLastTts[c]

\* C19 witness: a CRITICAL cycle that played the siren, with a failed call,
\* has reached its sleep with the timestamp refreshed.
C19_Witness ==
    /\ cpc["GATE"] = "sleep"
    /\ callFailed["GATE"]
    /\ sirenCalls["GATE"] = 1
    /\ last_siren_alert_at["GATE"] = cycleNow["GATE"]
    /\ cycleNow["GATE"] > StartTime

\* C20. Ownership and monotonicity of the timestamps: the timestamps of a
\* camera change only in that camera's own dispatch step, which changes no
\* other camera's; the new value is the old one or the current time; and
\* with the clock never going back no timestamp ever decreases.
C20_OwnedAndMonotonic ==
    [][\A c \in Cams :
          /\ last_siren_alert_at'[c] >= last_siren_alert_at[c]
          /\ last_tts_alert_at'[c] >= last_tts_alert_at[c]
          /\ last_siren_alert_at'[c] \in {last_siren_alert_at[c], now}
          /\ last_tts_alert_at'[c] \in {last_tts_alert_at[c], now}
          /\ (\/ last_siren_alert_at'[c] # last_siren_alert_at[c]
              \/ last_tts_alert_at'[c] # last_tts_alert_at[c]) =>
                 /\ cpc[c] = "dispatch"
                 /\ cpc'[c] # "dispatch"
                 /\ \A d \in Cams \ {c} :
                        /\ cpc'[d] = cpc[d]
                        /\ last_siren_alert_at'[d] = last_siren_alert_at[d]
                        /\ last_tts_alert_at'[d] = last_tts_alert_at[d]]_vars

\* C20 witness: GATE has refreshed its siren timestamp a second time, later
\* than the spoken alert of YARD, and neither camera has the other's value.
C20_Witness ==
    /\ last_siren_alert_at["GATE"] = StartTime + SIREN_COOLDOWN
    /\ last_tts_alert_at["YARD"] = StartTime + TickStep
    /\ last_tts_alert_at["GATE"] = 0
    /\ last_siren_alert_at["YARD"] = 0
\* ---- shutdown
\* C21. Clean shutdown of a producer: once stopped is set the producer never
\* begins a connection attempt again, it eventually leaves its loop from
\* wherever it is, and when it has left its source handle is released.
C21_CleanShutdown ==
    /\ [][\A c \in Cams :
             /\ stopped[c] /\ ppc'[c] = "open" => ppc[c] = "open"
             /\ ppc'[c] = "done" => stopped'[c] /\ ~capOpen'[c]]_vars
    /\ \A c \in Cams : (c \in streams /\ stopped[c]) ~> (ppc[c] = "done")

\* C21 witness: stop() came while the producer was streaming with a frame
\* published, and the producer has left its loop with the handle released.
C21_Witness ==
    /\ stopped["GATE"]
    /\ giveUpLogs["GATE"] = 0
    /\ frame["GATE"] # None
    /\ ppc["GATE"] = "done"
    /\ ~capOpen["GATE"]
\* ---- the mailbox lock
\* Inside read(), between taking the lock and releasing it.
InRead(c) == cpc[c] \in {"rcheck", "rcopy1", "rcopy2"}

\* C22. The consumer never blocks the producer on the mailbox: the consumer
\* holds the lock only inside read(), where it makes one copy and releases
\* (never while analyzing, alerting or sleeping); the producer holds it only
\* to store; whoever waits for the lock waits for a holder that can run, and
\* a producer that wants to publish does publish.
C22_ConsumerNeverBlocksProducer ==
    /\ [][\A c \in Cams :
             /\ lock[c] = "consumer" <=> InRead(c)
             /\ lock[c] = "producer" <=> ppc[c] = "store"
             /\ lock[c] = "consumer" /\ lock'[c] = "consumer" /\ cpc'[c] # cpc[c]
                  => <<cpc[c], cpc'[c]>> \in
                         {<<"rcheck", "rcopy1">>, <<"rcopy1", "rcopy2">>}
             /\ ppc[c] = "publish" /\ lock[c] # "free" => ENABLED Reader(c)
             /\ cpc[c] = "rlock" /\ lock[c] # "free" => ENABLED P_Store(c)]_vars
    /\ \A c \in Cams : (ppc[c] = "publish") ~> (ppc[c] = "store")

\* C22 witness: the producer wants to publish a second frame while the
\* consumer is in the middle of copying the first.
C22_Witness ==
    /\ ppc["GATE"] = "publish"
    /\ lock["GATE"] = "consumer"
    /\ cpc["GATE"] = "rcopy2"
    /\ frame["GATE"] # None
\* ---- the consumer's lifetime
\* What the consumer of c has emitted: notifications, audio, metrics.
Emitted(c) ==
    <<notif[c], sirenCalls[c], ttsCalls[c], sirenAt[c], ttsAt[c],
      metricsCalls[c], metricsArg[c]>>

\* C30. The consumer's lifetime is tied to the stop flag: once stopped is
\* set (retry exhaustion or stop()) the consumer begins no new cycle, it
\* eventually terminates, and a terminated consumer emits nothing more.
C30_ConsumerEndsWithStopFlag ==
    /\ [][\A c \in Cams :
             /\ stopped[c] /\ cpc'[c] = "rlock" => cpc[c] = "rlock"
             /\ stopped[c] /\ cpc[c] = "loop" => cpc'[c] \in {"loop", "done"}
             /\ cpc'[c] = "done" => stopped'[c]
             /\ cpc[c] \in {"done", "dead"}
                  => cpc'[c] = cpc[c] /\ Emitted(c)' = Emitted(c)]_vars
    /\ \A c \in Cams :
          (c \in streams /\ stopped[c]) ~> (cpc[c] \in {"done", "dead"})

\* C30 witness: stop() came on a camera whose connection never failed, the
\* consumer had played the siren, and it has terminated.
C30_Witness ==
    /\ stopped["GATE"]
    /\ giveUpLogs["GATE"] = 0
    /\ sirenAt["GATE"] = StartTime
    /\ cpc["GATE"] = "done"
\* ---- the mailbox slot
\* C29. read() is non-destructive: only the producer's store changes the
\* slot, so once a frame has been published the slot is never empty again,
\* a read that returns empty means nothing had been published, and a read
\* that returns a frame returns one that was published.
C29_ReadNonDestructive ==
    [][\A c \in Cams :
         /\ pubSeqs[c] # {} => frame[c] # None
         /\ frame'[c] # frame[c] => ppc[c] = "store" /\ frame'[c] # None
         /\ cpc'[c] = "empty" /\ cpc[c] # "empty" => pubSeqs[c] = {}
         /\ cpc'[c] = "got" /\ cpc[c] # "got"
              => cframe'[c] # NoFrame /\ frame'[c] = frame[c]]_vars

\* C29 witness: the source gave one frame and then nothing; an earlier cycle
\* on that frame sent CRITICAL and played the siren, and a later cycle on a
\* copy of the same frame has sent CRITICAL again (the siren is cooling down).
C29_Witness ==
    /\ captured["GATE"] = 1
    /\ ~capOpen["GATE"]
    /\ sirenAt["GATE"] = StartTime
    /\ cpc["GATE"] = "metrics"
    /\ cframe["GATE"] = FrameOf(1)
    /\ notif["GATE"] = <<"CRITICAL">>
    /\ sirenCalls["GATE"] = 0
\* ---- the empty mailbox
\* C23. An empty mailbox is not an error: before the first publish of its
\* camera the consumer is only at the loop test, inside read() or waiting
\* after an empty read; it has called no inference, notification, audio or
\* metrics collaborator, holds no frame, and has terminated only if the
\* stop flag was set.
C23_EmptyMailboxIsNoError ==
    \A c \in Cams :
        pubSeqs[c] = {} =>
            /\ cpc[c] \in {"loop", "rlock", "rcheck", "empty", "done"}
            /\ cpc[c] = "done" => stopped[c]
            /\ cframe[c] = NoFrame
            /\ res[c] = 0 /\ text[c] = "" /\ ~llmFailed[c]
            /\ Emitted(c) = <<<<>>, 0, 0, NoTime, NoTime, 0, <<>>>>

\* C23 witness: the consumer waits after an empty read while the producer,
\* connected, has captured its first frame but not yet published it.
C23_Witness ==
    /\ cpc["GATE"] = "empty"
    /\ pubSeqs["GATE"] = {}
    /\ ppc["GATE"] = "publish"
    /\ ~stopped["GATE"]
\* ---- the heartbeat
\* The heartbeat loop is running: past its guard, inside `while True`.
Beating == hbpc \in {"post", "except", "sleep"}
\* Every producer has left its loop.
AllProducersEnded == \A c \in streams : ppc[c] = "done"

\* C25. Heartbeat liveness: a heartbeat loop that is running stays running;
\* every send, failed or not, is followed by the sleep and every sleep by
\* the next send; a failed send goes through the except clause to the sleep;
\* and the sends go on after every producer has ended.
C25_HeartbeatKeepsBeating ==
    /\ [][/\ Beating => Beating'
          /\ hbpc = "except" /\ hbpc' # "except" => hbpc' = "sleep"
          /\ Beating => ENABLED Heartbeat]_vars
    /\ (hbpc = "post") ~> (hbpc = "sleep")
    /\ (hbpc = "except") ~> (hbpc = "post")
    /\ (hbpc = "sleep") ~> (hbpc = "post")
    /\ (AllProducersEnded /\ hbpc = "sleep")
          ~> (AllProducersEnded /\ hbpc = "post")

\* C25 witness: the camera's producer has given up and ended, and a send of
\* the heartbeat has just failed.
C25_Witness ==
    /\ giveUpLogs["GATE"] = 1
    /\ ppc["GATE"] = "done"
    /\ hbpc = "except"
\* ---- start-up
\* The threads and the mailbox main has started for c.
Started(c) == <<mailboxes[c], producers[c], consumers[c]>>
\* main has finished its loop over CAMERAS.
CamerasStarted == mpc \in {"heartbeat", "run"}

\* C24 as claimed: whatever the number of cameras, zero included, a main that
\* is through its start-up has started the heartbeat exactly once.
C24_HeartbeatForEveryCameraCount ==
    mpc \in {"run", "exit"} => heartbeats = 1

\* C24 amended. For each registered camera main constructs exactly one
\* mailbox and starts one producer and one consumer on it, and then starts
\* the heartbeat exactly once; with no camera registered main returns having
\* started nothing, the heartbeat included.
C24_SupervisorStartUp ==
    /\ \A c \in Cams :
          /\ Started(c) \in {<<0, 0, 0>>, <<1, 1, 1>>}
          /\ Started(c) = <<1, 1, 1>> <=> c \in streams
          /\ c \in streams => c \in CAMERAS
          /\ CamerasStarted /\ c \in CAMERAS => c \in streams
    /\ heartbeats = IF mpc = "run" \/ (mpc = "exit" /\ CAMERAS # {}) THEN 1 ELSE 0
    /\ (hbpc # "none") <=> (heartbeats = 1)
    /\ CAMERAS = {} => mpc \in {"check", "exit"} /\ streams = {}

\* C24 witness: two cameras configured, both started, the heartbeat started
\* and main in its sleep loop.
C24_Witness ==
    /\ CAMERAS = Cams
    /\ mpc = "run"
    /\ \A c \in Cams : Started(c) = <<1, 1, 1>>
    /\ heartbeats = 1

\* C26. Configuration errors are per camera: a camera whose URL is missing or
\* empty is not registered, nothing is constructed or started for it and no
\* producer runs for it; every camera with a URL is registered and, once
\* main is through its loop, started.
C26_ConfigurationErrorPerCamera ==
    \A c \in Cams :
        /\ environ[c] \in {"absent", ""} =>
               /\ c \notin CAMERAS
               /\ c \notin streams
               /\ Started(c) = <<0, 0, 0>>
               /\ ppc[c] = "loop" /\ retries[c] = 0
        /\ environ[c] = "rtsp" =>
               /\ c \in CAMERAS
               /\ CamerasStarted => c \in streams /\ Started(c) = <<1, 1, 1>>

\* C26 witness: GATE's URL is empty and YARD's is set; main is in its sleep
\* loop, nothing was started for GATE and YARD's producer is at work.
C26_Witness ==
    /\ environ["GATE"] = ""
    /\ environ["YARD"] = "rtsp"
    /\ mpc = "run"
    /\ Started("GATE") = <<0, 0, 0>>
    /\ Started("YARD") = <<1, 1, 1>>
    /\ retries["YARD"] > 0
\* ---- the admin service
\* C27 as claimed: after a successful rename_camera the camera new_name is
\* listed with the URL and the prompt old_name had before the call, and
\* old_name has no keys left unless new_name is old_name.
C27_RenameMovesCamera ==
    lastRename.called /\ lastRename.ok =>
        /\ load_cameras(envfile, lastRename.new)
               = load_cameras(before, lastRename.old)
        /\ lastRename.new # lastRename.old =>
               envfile[lastRename.old] = [url |-> NoEntry, prompt |-> NoEntry]
\* C34. Admin rename error path: rename_camera reports failure exactly when
\* old_name has no URL (no RTSP_URL_ key, or an empty value), and a failed
\* call leaves every key of the file as it was.
C34_RenameNotFoundChangesNothing ==
    lastRename.called =>
        /\ lastRename.ok <=> ~Falsy(dotenv_get(before[lastRename.old].url))
        /\ ~lastRename.ok => envfile = before

\* C34 witness: a rename of a name that has a prompt key but no URL key has
\* failed, onto a different name.
C34_Witness ==
    /\ lastRename.called
    /\ ~lastRename.ok
    /\ lastRename.new # lastRename.old
    /\ before[lastRename.old].url = NoEntry
    /\ before[lastRename.old].prompt # NoEntry
\* ---- the single-camera programs
\* C32. iniciar_stream of sentinex_cam1.py: the wait after a failed open is
\* min(backoff_start * 2^retries, backoff_max) for the retries counted
\* before it, so the waits of one call are the doubling sequence capped at
\* backoff_max; the function is left only by the step that opened the
\* capture; and every call begins with retries = 0 and no wait made.
C32_BackoffUntilOpened ==
    [][/\ cam1'.retries = cam1.retries + 1 =>
             /\ cam1.pc = "open" /\ cam1'.pc = "open" /\ ~cam1'.cap
             /\ cam1'.wait = min(BackoffStart * (2 ^ cam1.retries), BackoffMax)
             /\ cam1'.wait
                  = IF cam1.retries = 0 THEN BackoffStart
                    ELSE min(2 * cam1.wait, BackoffMax)
       /\ Len(cam1.waits) = cam1.retries
       /\ \A i \in 1..Len(cam1.waits) :
             cam1.waits[i] = min(BackoffStart * (2 ^ (i - 1)), BackoffMax)
       /\ cam1.pc = "open" /\ cam1'.pc # "open" =>
             cam1'.cap /\ cam1'.pc = "read"
       /\ cam1.pc \in {"read", "cycle"} => cam1.cap
       /\ cam1.pc = "open" /\ cam1.retries < MaxOpenFails => ENABLED Cam1_OpenFail
       /\ cam1'.calls # cam1.calls =>
             cam1'.retries = 0 /\ cam1'.waits = <<>> /\ cam1'.pc = "open"]_vars

\* C32 witness: the second call of iniciar_stream has returned an opened
\* capture after six failed opens, having waited 5, 10, 20, 40, 60 and 60 s.
C32_Witness ==
    /\ cam1.calls = 2
    /\ cam1.pc = "read"
    /\ cam1.cap
    /\ cam1.waits = <<5, 10, 20, 40, 60, 60>>
\* C33. main of sentinex_nano.py: reconnect_attempts is the number of failed
\* connection attempts in a row (a successful connection sets it to 0) and
\* the loop has ended exactly when that number is 3; the wait after the n-th
\* failure in a row, n < 3, is min(30, 10 * n); consecutive_errors is the
\* number of failed reads in a row on the connection (a successful read
\* sets it to 0) and the connection is dropped exactly when it reaches 5.
C33_ThreeAttemptsFiveErrors ==
    [][/\ nano.reconnect_attempts = nano.failsInRow
       /\ nano.consecutive_errors = nano.errorsInRow
       /\ nano.pc = "ended" <=> nano.failsInRow = MaxReconnectAttempts
       /\ nano.pc = "ended" => nano'.pc = "ended"
       /\ nano'.failsInRow = nano.failsInRow + 1
            /\ nano'.failsInRow < MaxReconnectAttempts =>
             /\ nano'.pc = "connect"
             /\ nano'.wait_time
                  = min(ReconnectWaitMax, ReconnectWaitStep * nano'.failsInRow)
       /\ nano'.cap /\ ~nano.cap =>
             nano'.reconnect_attempts = 0 /\ nano'.consecutive_errors = 0
       /\ nano.pc = "read" /\ nano'.pc = "frame" => nano'.consecutive_errors = 0
       /\ nano.pc = "release" <=> nano.cap /\ nano.errorsInRow = MaxConsecutiveErrors
       /\ nano.cap /\ ~nano'.cap => nano.errorsInRow = MaxConsecutiveErrors
       /\ nano.cap <=> nano.pc \in {"read", "frame", "release"}]_vars

\* C33 witness: after one failed connection attempt and its 10 s wait, a
\* connection was made, the attempt counter is back at 0, and four reads in a
\* row have failed on it: one short of the drop, it still reads.
C33_Witness ==
    /\ nano.pc = "read"
    /\ nano.cap
    /\ nano.consecutive_errors = MaxConsecutiveErrors - 1
    /\ nano.reconnect_attempts = 0
    /\ nano.wait_time = ReconnectWaitStep
\* ---- progress
\* C31 as claimed: under fair scheduling a frame the source has yielded is
\* eventually published, and once a frame is published on a stream that is
\* not stopped the consumer eventually completes an analysis cycle (it
\* reaches the sleep that ends the cycle, holding a copy of a published
\* frame), unless the stream is stopped first.
C31_PipelineProgress ==
    \A c \in Cams :
        /\ (ppc[c] = "publish") ~> (pubSeqs[c] # {})
        /\ (pubSeqs[c] # {} /\ ~stopped[c])
              ~> (stopped[c] \/ (cpc[c] = "sleep" /\ cframe[c][1] \in pubSeqs[c]))
====
